---- MODULE Spec2Model ----
(***************************************************************************)
(* A model of md2man/roff.go: the roff renderer that blackfriday drives    *)
(* over a markdown AST.  The renderer (RenderNode and its helpers) is      *)
(* translated from the source; the depth-first walker that calls it        *)
(* (blackfriday's Node.Walk) generates the document lazily, one node at a  *)
(* time, so that every well-nested traversal within the bounds is checked. *)
(*                                                                         *)
(* Bytes are one-character strings, a byte string is a sequence of chunks  *)
(* (a chunk is a string constant of the source, or one byte of a literal). *)
(***************************************************************************)
EXTENDS Integers, Sequences, FiniteSets, TLC

\* ---------------------------------------------------------------- bounds
MaxDepth == 5
MaxVisits == 5
MaxBlockVisits == 9
MaxLen == 3
MaxCols == 3
MaxRows == 3

\* ------------------------------------------------------ roff.go constants
titleHeader == ".TH "
topLevelHeader == "\n\n.SH "
secondLevelHdr == "\n.SH "
otherHeader == "\n.SS "
crTag == "\n"
emphTag == "\\fI"
emphCloseTag == "\\fP"
strongTag == "\\fB"
strongCloseTag == "\\fP"
breakTag == "\n.br\n"
paraTag == "\n.PP\n"
hruleTag == "\n.ti 0\n\\l'\\n(.lu'\n"
linkTag == "\n\\[la]"
linkCloseTag == "\\[ra]"
codespanTag == "\\fB\\fC"
codespanCloseTag == "\\fR"
codeTag == "\n.PP\n.RS\n\n.nf\n"
codeCloseTag == "\n.fi\n.RE\n"
quoteTag == "\n.PP\n.RS\n"
quoteCloseTag == "\n.RE\n"
listTag == "\n.RS\n"
listCloseTag == "\n.RE\n"
arglistTag == "\n.TP\n"
tableStart == "\n.TS\nallbox;\n"
tableEnd == "\n.TE\n"
tableCellStart == "\nT{\n"
tableCellEnd == "\nT}\n"

\* the zero-width prefix written by escapeSpecialChars (roff.go line 284)
escPrefix == "\\&"

\* the empty Go string, as a byte string
EmptyStr == <<>>

\* a Go string constant, as a byte string of one chunk
Str(s) == <<s>>

\* ------------------------------------------------------------ io.Writer
\* The writer handed to the renderer: ok says whether it accepts writes,
\* failed whether one of its Write calls has returned an error, and writes
\* is the log of the Write calls of the current RenderNode call: the data,
\* whether the call returned an error, and whether it came after an error.
Writer(ok, failed) == [ok |-> ok, failed |-> failed, writes |-> <<>>]

\* io.WriteString / w.Write: the data reaches the writer, which returns an
\* error when it is failing.
WriteString(w, data) ==
    [w |-> [w EXCEPT !.writes = Append(@, [data |-> data, err |-> ~w.ok,
                                           late |-> w.failed]),
                     !.failed = @ \/ ~w.ok],
     err |-> ~w.ok]

\* out with a sticky error: once a write has failed nothing more is written
outSticky(w, output) == IF w.failed THEN w ELSE WriteString(w, output).w

\* out (roff.go 267-269): the error of io.WriteString is dropped.
out(w, output) == WriteString(w, output).w

\* ------------------------------------------------------------- escaping
\* the bytes of []byte("-_&\\~") (roff.go 272)
escapeSet == <<"-", "_", "&", "\\", "~">>

\* needsBackslash with the last byte of the set left out of the loop
needsBackslashShort(c) == \E k \in 1..(Len(escapeSet) - 1) : c = escapeSet[k]

\* needsBackslash (roff.go 271-278)
needsBackslash(c) == \E k \in 1..Len(escapeSet) : c = escapeSet[k]

\* the inner loop of escapeSpecialChars (roff.go 290-292): the first index
\* at or after i (0-based, as in the source) whose byte needs a backslash,
\* or len(text)
RECURSIVE scanNormal(_, _)
scanNormal(text, i) ==
    IF i < Len(text) /\ ~needsBackslash(text[i + 1])
    THEN scanNormal(text, i + 1)
    ELSE i

\* escapeSpecialChars with the prefix test for a period only
RECURSIVE escapeFromPeriod(_, _, _)
escapeFromPeriod(w, text, i) ==
    IF ~(i < Len(text)) THEN w
    ELSE
      LET w1 == IF Len(text) >= 1 /\ text[1] = "."
                THEN WriteString(w, Str(escPrefix)).w
                ELSE w
          org == i
          j == scanNormal(text, i)
          w2 == IF j > org THEN WriteString(w1, SubSeq(text, org + 1, j)).w ELSE w1
      IN IF j >= Len(text) THEN w2
         ELSE LET w3 == WriteString(w2, <<"\\">>).w
                  w4 == WriteString(w3, <<text[j + 1]>>).w
              IN escapeFromPeriod(w4, text, j + 1)

\* one iteration of the outer loop of escapeSpecialChars from index i on
\* (roff.go 281-304), then the following iterations
RECURSIVE escapeFrom(_, _, _)
escapeFrom(w, text, i) ==
    IF ~(i < Len(text)) THEN w
    ELSE
      LET w1 == IF Len(text) >= 1 /\ (text[1] = "'" \/ text[1] = ".")
                THEN WriteString(w, Str(escPrefix)).w
                ELSE w
          org == i
          j == scanNormal(text, i)
          w2 == IF j > org THEN WriteString(w1, SubSeq(text, org + 1, j)).w ELSE w1
      IN IF j >= Len(text) THEN w2
         ELSE LET w3 == WriteString(w2, <<"\\">>).w
                  w4 == WriteString(w3, <<text[j + 1]>>).w
              IN escapeFrom(w4, text, j + 1)

\* escapeSpecialChars (roff.go 280-305)
escapeSpecialChars(w, text) == escapeFrom(w, text, 0)

\* --------------------------------------------------------------- fmt
\* strconv of one decimal digit
digitChar(d) ==
    CASE d = 0 -> "0" [] d = 1 -> "1" [] d = 2 -> "2" [] d = 3 -> "3"
      [] d = 4 -> "4" [] d = 5 -> "5" [] d = 6 -> "6" [] d = 7 -> "7"
      [] d = 8 -> "8" [] d = 9 -> "9"

\* the decimal digits of n >= 0, most significant first
RECURSIVE decimal(_)
decimal(n) == IF n < 10 THEN <<digitChar(n)>>
              ELSE Append(decimal(n \div 10), digitChar(n % 10))

\* fmt's %3d of n >= 0: the decimal digits, padded with spaces on the left
\* to a width of 3
fmt3d(n) ==
    LET d == decimal(n)
    IN [k \in 1..(IF Len(d) < 3 THEN 3 - Len(d) ELSE 0) |-> " "] \o d

\* fmt.Sprintf(".IP \"%3d.\" 5\n", n) (roff.go 186)
itemMarker(n) == <<".IP \"">> \o fmt3d(n) \o <<".\" 5\n">>

\* strings.Repeat(s, count) (roff.go 213-214)
Repeat(s, count) == [k \in 1..count |-> s]

\* ------------------------------------------------------------ the AST
\* blackfriday's node types that the renderer handles, and three it does not
ContainerTypes == {"Document", "BlockQuote", "List", "Item", "Paragraph",
                   "Heading", "Emph", "Strong", "Del", "Link", "Image",
                   "Table", "TableHead", "TableBody", "TableRow", "TableCell"}
LeafTypes == {"Text", "Softbreak", "Hardbreak", "Code", "CodeBlock",
              "HorizontalRule", "HTMLBlock", "HTMLSpan"}

\* blackfriday's Node.isContainer
isContainer(type) == type \in ContainerTypes

\* blackfriday's ListType flags, a bit mask modelled as a set of flag names
ListTypeOrdered == "ListTypeOrdered"
ListTypeDefinition == "ListTypeDefinition"

\* A node as RenderNode reads it: its own fields, the types of its parent
\* and previous sibling ("nil" when the pointer is nil), whether it has a
\* first child, and for a Table the cells of each of its rows (row 1 is the
\* row of the TableHead, the others are the rows of the TableBody).
Node(type, parent, prev) ==
    [Type |-> type, Parent |-> parent, Prev |-> prev, HasChild |-> FALSE,
     Literal |-> <<>>, Level |-> 0, ListFlags |-> {}, IsHeader |-> FALSE,
     Destination |-> <<>>, Rows |-> <<>>]

\* ------------------------------------------------- the column pre-pass
\* the events of Node.Walk over a table row of c cells
RowEvents(c) ==
    <<[Type |-> "TableRow", entering |-> TRUE]>>
    \o [k \in 1..(2 * c) |-> [Type |-> "TableCell", entering |-> (k % 2 = 1)]]
    \o <<[Type |-> "TableRow", entering |-> FALSE]>>

RECURSIVE RowsEvents(_)
RowsEvents(rows) ==
    IF rows = <<>> THEN <<>> ELSE RowEvents(Head(rows)) \o RowsEvents(Tail(rows))

\* the events of Node.Walk over a whole table, in depth-first order (the
\* contents of the cells are left out: the visitor of countColumns answers
\* GoToNext to every node that is neither a row nor a cell)
TableEvents(rows) ==
    <<[Type |-> "Table", entering |-> TRUE]>>
    \o (IF rows = <<>> THEN <<>>
        ELSE <<[Type |-> "TableHead", entering |-> TRUE]>>
             \o RowEvents(Head(rows))
             \o <<[Type |-> "TableHead", entering |-> FALSE],
                  [Type |-> "TableBody", entering |-> TRUE]>>
             \o RowsEvents(Tail(rows))
             \o <<[Type |-> "TableBody", entering |-> FALSE]>>)
    \o <<[Type |-> "Table", entering |-> FALSE]>>

\* the visitor closure of countColumns (roff.go 251-263): the new value of
\* columns and the status it returns
countVisitor(columns, type, entering) ==
    CASE type = "TableRow" ->
           IF ~entering THEN [columns |-> columns, status |-> "Terminate"]
           ELSE [columns |-> columns, status |-> "Terminate"]
      [] type = "TableCell" ->
           [columns |-> columns + 1, status |-> "Terminate"]
      [] OTHER -> [columns |-> columns, status |-> "GoToNext"]

\* Node.Walk with that visitor: the events in order until one answers
\* Terminate or the walk is over
RECURSIVE walkCount(_, _, _)
walkCount(events, k, columns) ==
    IF k > Len(events) THEN columns
    ELSE LET v == countVisitor(columns, events[k].Type, events[k].entering)
         IN IF v.status = "Terminate" THEN v.columns
            ELSE walkCount(events, k + 1, v.columns)

\* countColumns (roff.go 248-265)
countColumns(node) == walkCount(TableEvents(node.Rows), 1, 0)

\* ---------------------------------------------------------- RenderNode
\* NewRoffRenderer (roff.go 52-65): the zero values of the state fields
NewRoffRenderer ==
    [ListCounters |-> <<>>, firstHeader |-> FALSE, defineTerm |-> FALSE,
     inList |-> FALSE]

\* What one call of RenderNode leaves behind: the renderer, the writer and
\* the status returned ("panic" when the call panics instead of returning).
Ret(r, w, status) == [r |-> r, w |-> w, status |-> status]

\* the Text case with the limit at 30 bytes and more
renderTextFrom30(r, w, node, entering) ==
    IF node.Parent = "nil" THEN Ret(r, w, "panic")
    ELSE
      LET long == node.Parent = "TableCell" /\ Len(node.Literal) >= 30
          start == IF long THEN Str(tableCellStart) ELSE EmptyStr
          end == IF long THEN Str(tableCellEnd) ELSE EmptyStr
          w1 == out(w, start)
          w2 == escapeSpecialChars(w1, node.Literal)
      IN Ret(r, out(w2, end), "GoToNext")

\* case blackfriday.Text (roff.go 84-96)
renderText(r, w, node, entering) ==
    IF node.Parent = "nil" THEN Ret(r, w, "panic")
    ELSE
      LET long == node.Parent = "TableCell" /\ Len(node.Literal) > 30
          start == IF long THEN Str(tableCellStart) ELSE EmptyStr
          end == IF long THEN Str(tableCellEnd) ELSE EmptyStr
          w1 == out(w, start)
          w2 == escapeSpecialChars(w1, node.Literal)
      IN Ret(r, out(w2, end), "GoToNext")

\* case blackfriday.Emph (roff.go 101-106)
renderEmph(r, w, node, entering) ==
    Ret(r, out(w, Str(IF entering THEN emphTag ELSE emphCloseTag)), "GoToNext")

\* case blackfriday.Strong (roff.go 107-112)
renderStrong(r, w, node, entering) ==
    Ret(r, out(w, Str(IF entering THEN strongTag ELSE strongCloseTag)), "GoToNext")

\* case blackfriday.Link (roff.go 113-118)
renderLink(r, w, node, entering) ==
    IF entering THEN Ret(r, out(w, Str(linkTag) \o node.Destination), "GoToNext")
    ELSE Ret(r, out(w, Str(linkCloseTag)), "GoToNext")

\* the Image case returning GoToNext
renderImageDescend(r, w, node, entering) == Ret(r, w, "GoToNext")

\* case blackfriday.Image (roff.go 119-121)
renderImage(r, w, node, entering) == Ret(r, w, "SkipChildren")

\* case blackfriday.Code (roff.go 122-125)
renderCode(r, w, node, entering) ==
    LET w1 == out(w, Str(codespanTag))
        w2 == escapeSpecialChars(w1, node.Literal)
    IN Ret(r, out(w2, Str(codespanCloseTag)), "GoToNext")

\* the Paragraph case with the test of inList on entering only
renderParagraphBreak(r, w, node, entering) ==
    IF entering
    THEN IF r.inList THEN Ret(r, w, "GoToNext")
         ELSE Ret(r, out(w, Str(paraTag)), "GoToNext")
    ELSE Ret(r, out(w, Str(crTag)), "GoToNext")

\* case blackfriday.Paragraph (roff.go 128-137)
renderParagraph(r, w, node, entering) ==
    IF r.inList THEN Ret(r, w, "GoToNext")
    ELSE IF entering THEN Ret(r, out(w, Str(paraTag)), "GoToNext")
    ELSE Ret(r, out(w, Str(crTag)), "GoToNext")

\* case blackfriday.BlockQuote (roff.go 138-143)
renderBlockQuote(r, w, node, entering) ==
    Ret(r, out(w, Str(IF entering THEN quoteTag ELSE quoteCloseTag)), "GoToNext")

\* the Heading case without the assignment to firstHeader
renderHeadingNoFlag(r, w, node, entering) ==
    IF ~entering THEN Ret(r, w, "GoToNext")
    ELSE CASE node.Level = 1 ->
                IF r.firstHeader = FALSE
                THEN Ret(r, out(w, Str(titleHeader)), "GoToNext")
                ELSE Ret(r, out(w, Str(topLevelHeader)), "GoToNext")
           [] node.Level = 2 -> Ret(r, out(w, Str(secondLevelHdr)), "GoToNext")
           [] OTHER -> Ret(r, out(w, Str(otherHeader)), "GoToNext")

\* case blackfriday.Heading (roff.go 144-159)
renderHeading(r, w, node, entering) ==
    IF ~entering THEN Ret(r, w, "GoToNext")
    ELSE CASE node.Level = 1 ->
                IF r.firstHeader = FALSE
                THEN Ret([r EXCEPT !.firstHeader = TRUE],
                         out(w, Str(titleHeader)), "GoToNext")
                ELSE Ret(r, out(w, Str(topLevelHeader)), "GoToNext")
           [] node.Level = 2 -> Ret(r, out(w, Str(secondLevelHdr)), "GoToNext")
           [] OTHER -> Ret(r, out(w, Str(otherHeader)), "GoToNext")

\* the List case with one counter shared by all ordered lists: a counter is
\* pushed only when none is there
renderListShared(r, w, node, entering) ==
    LET isDef == ListTypeDefinition \in node.ListFlags
        isOrd == ListTypeOrdered \in node.ListFlags
        openTag == IF isDef THEN EmptyStr ELSE Str(listTag)
        closeTag == IF isDef THEN EmptyStr ELSE Str(listCloseTag)
    IN IF entering
       THEN LET r1 == [r EXCEPT !.inList = TRUE]
                r2 == IF isOrd /\ r.ListCounters = <<>>
                      THEN [r1 EXCEPT !.ListCounters = Append(@, 1)]
                      ELSE r1
            IN Ret(r2, out(w, openTag), "GoToNext")
       ELSE IF isOrd /\ r.ListCounters = <<>>
            THEN Ret(r, w, "panic")
            ELSE LET r1 == IF isOrd
                           THEN [r EXCEPT !.ListCounters =
                                     SubSeq(@, 1, Len(@) - 1)]
                           ELSE r
                 IN Ret([r1 EXCEPT !.inList = FALSE], out(w, closeTag),
                        "GoToNext")

\* case blackfriday.List (roff.go 162-182)
renderList(r, w, node, entering) ==
    LET isDef == ListTypeDefinition \in node.ListFlags
        isOrd == ListTypeOrdered \in node.ListFlags
        openTag == IF isDef THEN EmptyStr ELSE Str(listTag)
        closeTag == IF isDef THEN EmptyStr ELSE Str(listCloseTag)
    IN IF entering
       THEN LET r1 == [r EXCEPT !.inList = TRUE]
                r2 == IF isOrd
                      THEN [r1 EXCEPT !.ListCounters = Append(@, 1)]
                      ELSE r1
            IN Ret(r2, out(w, openTag), "GoToNext")
       ELSE IF isOrd /\ r.ListCounters = <<>>
            THEN Ret(r, w, "panic")
            ELSE LET r1 == IF isOrd
                           THEN [r EXCEPT !.ListCounters =
                                     SubSeq(@, 1, Len(@) - 1)]
                           ELSE r
                 IN Ret([r1 EXCEPT !.inList = FALSE], out(w, closeTag),
                        "GoToNext")

\* the Item case without the increment of the counter
renderItemNoCount(r, w, node, entering) ==
    IF ~entering THEN Ret(r, out(w, Str("\n")), "GoToNext")
    ELSE IF ListTypeOrdered \in node.ListFlags
    THEN IF r.ListCounters = <<>> THEN Ret(r, w, "panic")
         ELSE LET n == Len(r.ListCounters)
              IN Ret(r, out(w, itemMarker(r.ListCounters[n])), "GoToNext")
    ELSE IF ListTypeDefinition \in node.ListFlags
    THEN IF r.defineTerm = FALSE
         THEN Ret([r EXCEPT !.defineTerm = TRUE], out(w, Str(arglistTag)),
                  "GoToNext")
         ELSE Ret([r EXCEPT !.defineTerm = FALSE], w, "GoToNext")
    ELSE Ret(r, out(w, Str(".IP \\(bu 2\n")), "GoToNext")

\* case blackfriday.Item (roff.go 183-203)
renderItem(r, w, node, entering) ==
    IF ~entering THEN Ret(r, out(w, Str("\n")), "GoToNext")
    ELSE IF ListTypeOrdered \in node.ListFlags
    THEN IF r.ListCounters = <<>> THEN Ret(r, w, "panic")
         ELSE LET n == Len(r.ListCounters)
              IN Ret([r EXCEPT !.ListCounters[n] = @ + 1],
                     out(w, itemMarker(r.ListCounters[n])), "GoToNext")
    ELSE IF ListTypeDefinition \in node.ListFlags
    THEN IF r.defineTerm = FALSE
         THEN Ret([r EXCEPT !.defineTerm = TRUE], out(w, Str(arglistTag)),
                  "GoToNext")
         ELSE Ret([r EXCEPT !.defineTerm = FALSE], w, "GoToNext")
    ELSE Ret(r, out(w, Str(".IP \\(bu 2\n")), "GoToNext")

\* case blackfriday.CodeBlock (roff.go 204-207)
renderCodeBlock(r, w, node, entering) ==
    LET w1 == out(w, Str(codeTag))
        w2 == escapeSpecialChars(w1, node.Literal)
    IN Ret(r, out(w2, Str(codeCloseTag)), "GoToNext")

\* the Table case with the pre-pass sharing the walk of the render: the
\* Terminate that ends the counting is handed to the outer walk
renderTableSharedWalk(r, w, node, entering) ==
    IF entering
    THEN LET w1 == out(w, Str(tableStart))
             columns == countColumns(node)
             w2 == out(w1, Repeat("l ", columns) \o Str("\n"))
         IN Ret(r, out(w2, Repeat("l ", columns) \o Str(".\n")),
                IF node.Rows = <<>> THEN "GoToNext" ELSE "Terminate")
    ELSE Ret(r, out(w, Str(tableEnd)), "GoToNext")

\* case blackfriday.Table (roff.go 208-217)
renderTable(r, w, node, entering) ==
    IF entering
    THEN LET w1 == out(w, Str(tableStart))
             columns == countColumns(node)
             w2 == out(w1, Repeat("l ", columns) \o Str("\n"))
         IN Ret(r, out(w2, Repeat("l ", columns) \o Str(".\n")), "GoToNext")
    ELSE Ret(r, out(w, Str(tableEnd)), "GoToNext")

\* case blackfriday.TableCell (roff.go 218-232); node.Prev is dereferenced
\* without a nil check on entering
renderTableCell(r, w, node, entering) ==
    LET start == IF node.IsHeader THEN Str(codespanTag) ELSE EmptyStr
        end == IF node.IsHeader THEN Str(codespanCloseTag) ELSE EmptyStr
    IN IF entering
       THEN IF node.Prev = "nil" THEN Ret(r, w, "panic")
            ELSE IF node.Prev = "TableCell"
            THEN Ret(r, out(w, Str("\t") \o start), "GoToNext")
            ELSE Ret(r, w, "GoToNext")
       ELSE Ret(r, out(w, end), "GoToNext")

\* the default case with the warning written to the writer of the document
renderDefaultToWriter(r, w, node, entering) ==
    Ret(r, out(w, <<"WARNING: go-md2man does not handle node type ", node.Type>>),
        "GoToNext")

\* the default case (roff.go 239-241): the warning goes to os.Stderr, not
\* to the writer
renderDefault(r, w, node, entering) == Ret(r, w, "GoToNext")

\* RenderNode (roff.go 81-244)
RenderNode(r, w, node, entering) ==
    CASE node.Type = "Text" -> renderText(r, w, node, entering)
      [] node.Type = "Softbreak" -> Ret(r, out(w, Str(crTag)), "GoToNext")
      [] node.Type = "Hardbreak" -> Ret(r, out(w, Str(breakTag)), "GoToNext")
      [] node.Type = "Emph" -> renderEmph(r, w, node, entering)
      [] node.Type = "Strong" -> renderStrong(r, w, node, entering)
      [] node.Type = "Link" -> renderLink(r, w, node, entering)
      [] node.Type = "Image" -> renderImage(r, w, node, entering)
      [] node.Type = "Code" -> renderCode(r, w, node, entering)
      [] node.Type = "Document" -> Ret(r, w, "GoToNext")
      [] node.Type = "Paragraph" -> renderParagraph(r, w, node, entering)
      [] node.Type = "BlockQuote" -> renderBlockQuote(r, w, node, entering)
      [] node.Type = "Heading" -> renderHeading(r, w, node, entering)
      [] node.Type = "HorizontalRule" -> Ret(r, out(w, Str(hruleTag)), "GoToNext")
      [] node.Type = "List" -> renderList(r, w, node, entering)
      [] node.Type = "Item" -> renderItem(r, w, node, entering)
      [] node.Type = "CodeBlock" -> renderCodeBlock(r, w, node, entering)
      [] node.Type = "Table" -> renderTable(r, w, node, entering)
      [] node.Type = "TableCell" -> renderTableCell(r, w, node, entering)
      [] node.Type = "TableHead" -> Ret(r, w, "GoToNext")
      [] node.Type = "TableBody" -> Ret(r, w, "GoToNext")
      [] node.Type = "TableRow" -> Ret(r, out(w, Str("\n")), "GoToNext")
      [] OTHER -> renderDefault(r, w, node, entering)

\* ------------------------------------------------------------- state
VARIABLES
    pc,        \* where blackfriday's Run is: "header", "walk", "footer", "done",
               \* "panic"; "escape" and "escaped" under SpecEscape
    stack,     \* the walker's path: the nodes entered and not yet left, each
               \* with the number of its children visited and the type of the
               \* last one
    r,         \* the roffRenderer: ListCounters, firstHeader, defineTerm, inList
    node,      \* the node of the last RenderNode call
    entering,  \* the entering argument of the last RenderNode call
    index,     \* the position of that node among its siblings, from 1
    status,    \* what the last RenderNode call returned
    w,         \* the writer after the last call, with the Write calls it got
    visits,    \* the number of RenderNode calls so far
    text       \* the input of escapeSpecialChars under SpecEscape

vars == <<pc, stack, r, node, entering, index, status, w, visits, text>>

\* ------------------------------------------------- the documents walked
\* literals of Text, Code and CodeBlock nodes: empty, plain, one that starts
\* with a period and holds an escaped byte, and two around the 30 byte limit
\* of the Text case
Filler(n) == [k \in 1..n |-> "x"]
TextLiterals == {<<"a">>, <<".", "-", "b">>, Filler(30), Filler(31)}
CodeLiterals == {<<>>, <<"a", "~">>}
Destinations == {<<"u", "_">>}

\* the rows of a table: 1..MaxRows rows of 1..MaxCols cells each
TableShapes == UNION {[1..n -> 1..MaxCols] : n \in 1..MaxRows}

BlockParents == {"Document", "BlockQuote", "Item"}
InlineParents == {"Paragraph", "Heading", "Emph", "Strong", "Del", "Link",
                  "Image", "TableCell"}

BlockNodes(p, prev) ==
    {[Node("Paragraph", p, prev) EXCEPT !.HasChild = TRUE],
     [Node("BlockQuote", p, prev) EXCEPT !.HasChild = TRUE],
     Node("HorizontalRule", p, prev),
     Node("HTMLBlock", p, prev)}
    \cup {[Node("Heading", p, prev) EXCEPT !.HasChild = TRUE, !.Level = l] :
            l \in 1..3}
    \cup {[Node("List", p, prev) EXCEPT !.HasChild = TRUE, !.ListFlags = f] :
            f \in {{ListTypeOrdered}, {ListTypeDefinition}, {}}}
    \cup {[Node("CodeBlock", p, prev) EXCEPT !.Literal = l] : l \in CodeLiterals}
    \cup {[Node("Table", p, prev) EXCEPT !.HasChild = TRUE, !.Rows = s] :
            s \in TableShapes}

InlineNodes(p, prev) ==
    {Node("Softbreak", p, prev), Node("Hardbreak", p, prev),
     Node("HTMLSpan", p, prev),
     [Node("Emph", p, prev) EXCEPT !.HasChild = TRUE],
     [Node("Strong", p, prev) EXCEPT !.HasChild = TRUE],
     [Node("Del", p, prev) EXCEPT !.HasChild = TRUE]}
    \cup {[Node("Text", p, prev) EXCEPT !.Literal = l] : l \in TextLiterals}
    \cup {[Node("Code", p, prev) EXCEPT !.Literal = l] : l \in CodeLiterals}
    \cup {[Node("Link", p, prev) EXCEPT !.HasChild = TRUE, !.Destination = d] :
            d \in Destinations}
    \cup {[Node("Image", p, prev) EXCEPT !.HasChild = h] : h \in BOOLEAN}

\* the root of every document
Document == [Node("Document", "nil", "nil") EXCEPT !.HasChild = TRUE]

Frame(n) == [node |-> n, kids |-> 0, last |-> "nil"]

\* how many children the walker finds under the node of frame f: a number
\* for the parts of a table, whose shape the Table node fixes, and -1 for a
\* node whose children the parser is free to choose
Wanted(f) ==
    CASE f.node.Type = "Table" -> 2
      [] f.node.Type \in {"TableHead", "TableBody"} -> Len(f.node.Rows)
      [] f.node.Type = "TableRow" -> f.node.Rows[1]
      [] OTHER -> -1

\* the nodes that can be the next child of the innermost open node
Children(stk) ==
    LET f == stk[Len(stk)]
        p == f.node.Type
        prev == f.last
    IN CASE p \in BlockParents -> BlockNodes(p, prev)
         [] p \in InlineParents -> InlineNodes(p, prev)
         [] p = "List" ->
              {[Node("Item", p, prev) EXCEPT !.HasChild = h,
                                            !.ListFlags = f.node.ListFlags] :
                 h \in BOOLEAN}
         [] p = "Table" ->
              IF f.kids = 0
              THEN {[Node("TableHead", p, prev) EXCEPT
                        !.HasChild = TRUE, !.Rows = <<Head(f.node.Rows)>>]}
              ELSE {[Node("TableBody", p, prev) EXCEPT
                        !.HasChild = (Len(f.node.Rows) > 1),
                        !.Rows = Tail(f.node.Rows)]}
         [] p \in {"TableHead", "TableBody"} ->
              {[Node("TableRow", p, prev) EXCEPT
                   !.HasChild = TRUE, !.Rows = <<f.node.Rows[f.kids + 1]>>]}
         [] p = "TableRow" ->
              {[Node("TableCell", p, prev) EXCEPT
                   !.HasChild = h,
                   !.IsHeader = (stk[Len(stk) - 1].node.Type = "TableHead")] :
                 h \in BOOLEAN}
         [] OTHER -> {}

\* Node.Walk's next() after an entering visit that did not descend, or after
\* a child was left: the parent has one more child behind it
ChildDone(stk, type) ==
    IF stk = <<>> THEN stk
    ELSE [stk EXCEPT ![Len(stk)] = [@ EXCEPT !.kids = @ + 1, !.last = type]]

\* where Run goes after a RenderNode call with the given status, the walk
\* being at the end (atEnd) or not
After(st, atEnd) ==
    CASE st = "panic" -> "panic"
      [] st = "Terminate" -> "footer"
      [] OTHER -> IF atEnd THEN "footer" ELSE "walk"

\* ----------------------------------------------------------- actions
Init ==
    /\ pc = "header"
    /\ stack = <<>>
    /\ r = NewRoffRenderer
    /\ node = Node("nil", "nil", "nil")
    /\ entering = FALSE
    /\ index = 0
    /\ status = "none"
    /\ w = Writer(TRUE, FALSE)
    /\ visits = 0
    /\ text = <<>>

\* RenderHeader (roff.go 71-75): hyphenation is switched off
RenderHeader ==
    /\ pc = "header"
    /\ w' = WriteString(Writer(w.ok, w.failed), Str(".nh\n")).w
    /\ pc' = "walk"
    /\ UNCHANGED <<stack, r, node, entering, index, status, visits, text>>

\* Node.Walk visits a node on the way down and calls RenderNode on it: the
\* root first, then a child of the innermost open node.  The document holds
\* nodes of the given types only, and the walk is followed for max visits.
EnterIn(types, max) ==
    /\ pc = "walk"
    /\ visits < max
    /\ \E n \in (IF stack = <<>> THEN {Document} ELSE Children(stack)) :
         /\ n.Type \in types
         /\ stack = <<>> => visits = 0
         /\ stack # <<>> =>
              LET f == stack[Len(stack)]
              IN /\ f.node.HasChild
                 /\ Wanted(f) >= 0 => f.kids < Wanted(f)
         /\ isContainer(n.Type) => Len(stack) < MaxDepth
         /\ LET res == RenderNode(r, Writer(w.ok, w.failed), n, TRUE)
                down == isContainer(n.Type) /\ res.status = "GoToNext"
            IN /\ r' = res.r
               /\ w' = res.w
               /\ status' = res.status
               /\ node' = n
               /\ entering' = TRUE
               /\ index' = IF stack = <<>> THEN 1 ELSE stack[Len(stack)].kids + 1
               /\ stack' = IF res.status \in {"panic", "Terminate"} THEN stack
                           ELSE IF down THEN Append(ChildDone(stack, n.Type), Frame(n))
                           ELSE ChildDone(stack, n.Type)
               /\ pc' = After(res.status, stack = <<>> /\ ~down)
    /\ visits' = visits + 1
    /\ UNCHANGED text

\* Node.Walk visits the innermost open node on the way up, once all its
\* children are behind it, and calls RenderNode on it
LeaveIn(max) ==
    /\ pc = "walk"
    /\ visits < max
    /\ stack # <<>>
    /\ LET f == stack[Len(stack)]
           rest == SubSeq(stack, 1, Len(stack) - 1)
           res == RenderNode(r, Writer(w.ok, w.failed), f.node, FALSE)
       IN /\ IF Wanted(f) >= 0 /\ f.node.HasChild THEN f.kids = Wanted(f)
             ELSE (f.kids > 0 \/ ~f.node.HasChild)
          /\ r' = res.r
          /\ w' = res.w
          /\ status' = res.status
          /\ node' = f.node
          /\ entering' = FALSE
          /\ index' = IF rest = <<>> THEN 1 ELSE rest[Len(rest)].kids
          /\ stack' = IF res.status \in {"panic", "Terminate"} THEN stack
                      ELSE rest
          /\ pc' = After(res.status, rest = <<>>)
    /\ visits' = visits + 1
    /\ UNCHANGED text

\* RenderFooter (roff.go 77-79) writes nothing
RenderFooter ==
    /\ pc = "footer"
    /\ pc' = "done"
    /\ UNCHANGED <<stack, r, node, entering, index, status, w, visits, text>>

\* The writer starts to fail (a closed pipe, a full disk): from now on every
\* Write returns an error.
WriterFails ==
    /\ pc \in {"header", "walk"}
    /\ w.ok
    /\ w' = [w EXCEPT !.ok = FALSE]
    /\ UNCHANGED <<pc, stack, r, node, entering, index, status, visits, text>>

\* documents of every node type
AllTypes == ContainerTypes \cup LeafTypes
Enter == EnterIn(AllTypes, MaxVisits)
Leave == LeaveIn(MaxVisits)

Next == RenderHeader \/ Enter \/ Leave \/ RenderFooter \/ WriterFails

Spec == Init /\ [][Next]_vars

\* documents of lists, items, paragraphs, block quotes, headings, images,
\* text and an unhandled block, written to a working writer and walked further
BlockDocTypes == {"Document", "List", "Item", "Paragraph", "Text",
                  "BlockQuote", "Heading", "HTMLBlock", "Image"}
EnterBlock == EnterIn(BlockDocTypes, MaxBlockVisits)
LeaveBlock == LeaveIn(MaxBlockVisits)

NextBlocks == RenderHeader \/ EnterBlock \/ LeaveBlock \/ RenderFooter

SpecBlocks == Init /\ [][NextBlocks]_vars

\* escapeSpecialChars on its own: every text of at most MaxLen bytes over
\* the five escaped bytes, the two bytes escaped at the start, and two
\* plain bytes
Alphabet == {"a", "b", ".", "'", "-", "_", "&", "\\", "~"}
Texts == UNION {[1..n -> Alphabet] : n \in 0..MaxLen}

InitEscape ==
    /\ pc = "escape"
    /\ text \in Texts
    /\ stack = <<>>
    /\ r = NewRoffRenderer
    /\ node = Node("nil", "nil", "nil")
    /\ entering = FALSE
    /\ index = 0
    /\ status = "none"
    /\ w = Writer(TRUE, FALSE)
    /\ visits = 0

EscapeText ==
    /\ pc = "escape"
    /\ w' = escapeSpecialChars(Writer(w.ok, w.failed), text)
    /\ pc' = "escaped"
    /\ UNCHANGED <<stack, r, node, entering, index, status, visits, text>>

NextEscape == EscapeText

SpecEscape == InitEscape /\ [][NextEscape]_vars

\* ------------------------------------------------ one node on its own
\* RenderNode on one node of a table or of inline content, entered and, if
\* it is a container, left again.  These cases of RenderNode neither read
\* nor write the renderer's fields, so the renderer is the new one.

\* the parts of a table below the Table node: head and body, their rows,
\* and the cells of a row (the first cell has no previous sibling, the
\* others follow a cell)
TableParts ==
    {[Node("TableHead", "Table", "nil") EXCEPT !.HasChild = TRUE],
     [Node("TableBody", "Table", "TableHead") EXCEPT !.HasChild = TRUE]}
    \cup {[Node("TableRow", pp[1], pp[2]) EXCEPT !.HasChild = TRUE,
                                                 !.Rows = <<c>>] :
            pp \in {<<"TableHead", "nil">>, <<"TableBody", "nil">>,
                    <<"TableBody", "TableRow">>},
            c \in 1..MaxCols}
    \cup {[Node("TableCell", "TableRow", prev) EXCEPT !.HasChild = h,
                                                      !.IsHeader = hd] :
            prev \in {"nil", "TableCell"}, h \in BOOLEAN, hd \in BOOLEAN}

NodesAlone ==
    TableParts
    \cup UNION {InlineNodes(p, prev) :
                  p \in InlineParents, prev \in {"nil", "Text"}}

InitNode ==
    /\ pc = "call"
    /\ node \in NodesAlone
    /\ stack = <<>>
    /\ r = NewRoffRenderer
    /\ entering = FALSE
    /\ index = 0
    /\ status = "none"
    /\ w = Writer(TRUE, FALSE)
    /\ visits = 0
    /\ text = <<>>

\* Node.Walk calls RenderNode on the node on the way down
EnterNode ==
    /\ pc = "call"
    /\ LET res == RenderNode(r, Writer(w.ok, w.failed), node, TRUE)
       IN /\ r' = res.r
          /\ w' = res.w
          /\ status' = res.status
          /\ pc' = IF res.status = "panic" THEN "panic"
                   ELSE IF isContainer(node.Type) /\ res.status = "GoToNext"
                   THEN "inside"
                   ELSE "returned"
    /\ entering' = TRUE
    /\ visits' = visits + 1
    /\ UNCHANGED <<stack, node, index, text>>

\* Node.Walk calls RenderNode on the container on the way up
LeaveNode ==
    /\ pc = "inside"
    /\ LET res == RenderNode(r, Writer(w.ok, w.failed), node, FALSE)
       IN /\ r' = res.r
          /\ w' = res.w
          /\ status' = res.status
          /\ pc' = IF res.status = "panic" THEN "panic" ELSE "returned"
    /\ entering' = FALSE
    /\ visits' = visits + 1
    /\ UNCHANGED <<stack, node, index, text>>

NextNode == EnterNode \/ LeaveNode

SpecNode == InitNode /\ [][NextNode]_vars

\* ========================================================== properties
\* what the last RenderNode call handed to the writer, write by write
Emitted == [k \in 1..Len(w.writes) |-> w.writes[k].data]

\* the last call was RenderNode(n, e) for a node of the given type
Visited(type, e) == visits > 0 /\ node.Type = type /\ entering = e

\* the number of column specifiers on a format line of the table preamble
Specifiers(line) == Cardinality({k \in 1..Len(line) : line[k] = "l "})

\* the types of the nodes entered and not yet left, outermost first
OpenTypes == [k \in 1..Len(stack) |-> stack[k].node.Type]

\* C1: when a Table node has been entered, each of the two format lines
\* written carries as many 'l' column specifiers as the table's first row
\* has cells.
C1_ColumnsOfFirstRow ==
    (Visited("Table", TRUE) /\ status = "GoToNext") =>
        /\ Len(Emitted) = 3
        /\ Specifiers(Emitted[2]) = node.Rows[1]
        /\ Specifiers(Emitted[3]) = node.Rows[1]

\* C2: a paragraph whose parent is a list item writes nothing, on entering
\* and on leaving, wherever it stands in the item; a paragraph with no list
\* open around it writes the paragraph marker on entering.
C2_ParagraphInItemSilent ==
    /\ (visits > 0 /\ node.Type = "Paragraph" /\ node.Parent = "Item") =>
           Emitted = <<>>
    /\ (Visited("Paragraph", TRUE)
          /\ \A k \in 1..Len(stack) : stack[k].node.Type # "List") =>
           Emitted = <<Str(paraTag)>>

\* C3: in a definition list the term marker (.TP) is written on entering the
\* items 1, 3, 5, ... and nothing is written on entering the items 2, 4, ...
C3_TermMarkerOnOddItems ==
    (Visited("Item", TRUE) /\ ListTypeDefinition \in node.ListFlags) =>
        Emitted = (IF index % 2 = 1 THEN <<Str(arglistTag)>> ELSE <<>>)

\* C4: on entering the k-th item of an ordered list the item marker written
\* carries the integer k, whatever lists are open around the list or were
\* opened and closed inside its earlier items, and the call returns normally.
C4_OrderedItemsNumbered ==
    (Visited("Item", TRUE) /\ ListTypeOrdered \in node.ListFlags) =>
        /\ status = "GoToNext"
        /\ Emitted = <<itemMarker(index)>>

\* C4 witness: the second item of an ordered list nested in the first item of
\* another ordered list has been entered: the inner list counts on its own
C4_Witness ==
    /\ Visited("Item", TRUE)
    /\ ListTypeOrdered \in node.ListFlags
    /\ index = 2
    /\ OpenTypes = <<"Document", "List", "Item", "List", "Item">>
    /\ r.ListCounters = <<2, 3>>
    /\ Emitted = <<<<".IP \"", " ", " ", "2", ".\" 5\n">>>>

\* C5: a step that enters a level-1 heading writes the title marker (.TH)
\* and sets firstHeader when firstHeader was false, and writes the top-level
\* section marker (.SH) and changes nothing when it was true; no other step
\* writes the title marker or changes firstHeader, which never goes back to
\* false: the title marker is written at most once in a render.
C5_Step ==
    /\ r.firstHeader => r'.firstHeader
    /\ (visits' = visits + 1) =>
         IF node'.Type = "Heading" /\ entering' /\ node'.Level = 1
         THEN IF r.firstHeader
              THEN Emitted' = <<Str(topLevelHeader)>> /\ r' = r
              ELSE Emitted' = <<Str(titleHeader)>>
                   /\ r' = [r EXCEPT !.firstHeader = TRUE]
         ELSE /\ r'.firstHeader = r.firstHeader
              /\ \A k \in 1..Len(Emitted') : Emitted'[k] # Str(titleHeader)

C5_TitleOnce == [][C5_Step]_vars

\* C5 witness: a second level-1 heading has been entered and got the section
\* marker
C5_Witness ==
    /\ Visited("Heading", TRUE)
    /\ node.Level = 1
    /\ node.Prev = "Heading"
    /\ r.firstHeader
    /\ Emitted = <<Str(topLevelHeader)>>

\* the bytes the claims call the escape set, and the two bytes that are
\* escaped at the start of a text
EscapedBytes == {"-", "_", "&", "\\", "~"}
LeadingBytes == {"'", "."}

\* the writes one after the other, as one byte string
RECURSIVE Flatten(_)
Flatten(datas) ==
    IF datas = <<>> THEN <<>> ELSE Head(datas) \o Flatten(Tail(datas))

\* the writes that are not the zero-width prefix: a copied run holds no
\* backslash and an escaped byte is written as two writes of one byte, so a
\* write of the two bytes \& is the prefix and nothing else
RECURSIVE WithoutPrefix(_)
WithoutPrefix(datas) ==
    IF datas = <<>> THEN <<>>
    ELSE IF Head(datas) = Str(escPrefix) THEN WithoutPrefix(Tail(datas))
    ELSE <<Head(datas)>> \o WithoutPrefix(Tail(datas))

\* every byte of the text, a byte of the escape set behind one backslash
RECURSIVE EachByteEscaped(_)
EachByteEscaped(t) ==
    IF t = <<>> THEN <<>>
    ELSE (IF Head(t) \in EscapedBytes THEN <<"\\", Head(t)>> ELSE <<Head(t)>>)
         \o EachByteEscaped(Tail(t))

\* C6: apart from the zero-width prefix, escapeSpecialChars writes the bytes
\* of its input in order, each byte of the escape set behind exactly one
\* backslash and every other byte as it is.
C6_EachByteEscapedOnce ==
    pc = "escaped" => Flatten(WithoutPrefix(Emitted)) = EachByteEscaped(text)

\* C6 witness: a text of an escaped byte between two others has been escaped
C6_Witness ==
    /\ pc = "escaped"
    /\ text = <<"\\", "a", "~">>
    /\ Flatten(Emitted) = <<"\\", "\\", "a", "\\", "~">>

\* C7 as stated: a text without a byte of the escape set is written as it is.
C7_IdentityOnPlainText ==
    (pc = "escaped" /\ \A k \in 1..Len(text) : text[k] \notin EscapedBytes) =>
        Flatten(Emitted) = text

\* C7 as amended: a text without a byte of the escape set is written as it
\* is when it does not start with an apostrophe or a period, and as the
\* zero-width prefix followed by the text when it does.
C7_IdentityUpToPrefix ==
    (pc = "escaped" /\ \A k \in 1..Len(text) : text[k] \notin EscapedBytes) =>
        Flatten(Emitted) =
            (IF text # <<>> /\ text[1] \in LeadingBytes
             THEN Str(escPrefix) ELSE <<>>) \o text

\* C7 witness: a plain text that starts with an apostrophe has been escaped
C7_Witness ==
    /\ pc = "escaped"
    /\ text = <<"'", "a", "b">>
    /\ Emitted = <<Str(escPrefix), <<"'", "a", "b">>>>

\* C8: for a text that starts with an apostrophe or a period the zero-width
\* prefix is the first write and no other write; for any other text the
\* prefix is never written.
C8_PrefixOnceAtStart ==
    pc = "escaped" =>
        IF text # <<>> /\ text[1] \in LeadingBytes
        THEN /\ Len(Emitted) >= 1
             /\ Emitted[1] = Str(escPrefix)
             /\ \A k \in 2..Len(Emitted) : Emitted[k] # Str(escPrefix)
        ELSE \A k \in 1..Len(Emitted) : Emitted[k] # Str(escPrefix)

\* C9: a visit of an Image returns SkipChildren, hands nothing to the writer
\* and leaves the renderer as it was, and the walk goes on behind the image
\* without opening it: no node is ever visited below an Image.
C9_Step ==
    (visits' = visits + 1 /\ node'.Type = "Image") =>
        /\ status' = "SkipChildren"
        /\ Emitted' = <<>>
        /\ r' = r
        /\ pc' = "walk"
        /\ stack' = ChildDone(stack, "Image")

C9_ImageSkipped ==
    /\ [][C9_Step]_vars
    /\ [](node.Parent # "Image"
          /\ \A k \in 1..Len(stack) : stack[k].node.Type # "Image")

\* C9 witness: an image that has children has been visited and skipped, and
\* the walk goes on in its parent
C9_Witness ==
    /\ Visited("Image", TRUE)
    /\ node.HasChild
    /\ status = "SkipChildren"
    /\ pc = "walk"
    /\ stack[Len(stack)].node.Type = "Paragraph"
    /\ stack[Len(stack)].last = "Image"

\* C10 as stated: after a write has failed no further write is attempted.
C10_NoWriteAfterFailure ==
    \A k \in 1..Len(w.writes) : ~w.writes[k].late

\* C10 as amended: a failed write is not propagated.  Whatever the writer
\* answers, a RenderNode call returns the status, leaves the renderer state
\* and attempts the writes of the same call on a working writer, it never
\* returns Terminate, and so the walk goes on and later writes are attempted.
C10_Step ==
    (visits' = visits + 1) =>
        LET res == RenderNode(r, Writer(TRUE, FALSE), node', entering')
        IN /\ status' = res.status
           /\ status' # "Terminate"
           /\ r' = res.r
           /\ Emitted' = [k \in 1..Len(res.w.writes) |-> res.w.writes[k].data]
           /\ (status' # "panic" /\ stack' # <<>>) => pc' = "walk"

C10_FailureIgnored == [][C10_Step]_vars

\* C10 witness: a call has attempted a write, which failed, after an earlier
\* write had failed, and the walk goes on
C10_Witness ==
    /\ visits > 0
    /\ pc = "walk"
    /\ status = "GoToNext"
    /\ Len(w.writes) > 0
    /\ w.writes[1].late
    /\ w.writes[1].err

\* the node types of the model that RenderNode has no case for
UnhandledTypes == {"HTMLBlock", "HTMLSpan", "Del"}

\* C11: a visit of a node of a type RenderNode has no case for hands nothing
\* to the writer, leaves the renderer as it was and returns GoToNext, and the
\* walk goes on: a container is opened, a leaf is passed.
C11_Step ==
    (visits' = visits + 1 /\ node'.Type \in UnhandledTypes) =>
        /\ status' = "GoToNext"
        /\ Emitted' = <<>>
        /\ r' = r
        /\ pc' = "walk"
        /\ stack' = IF entering'
                    THEN IF isContainer(node'.Type)
                         THEN Append(ChildDone(stack, node'.Type), Frame(node'))
                         ELSE ChildDone(stack, node'.Type)
                    ELSE SubSeq(stack, 1, Len(stack) - 1)

C11_UnknownIsNoOp == [][C11_Step]_vars

\* C11 witness: the paragraph behind an unhandled block has been entered and
\* rendered as usual
C11_Witness ==
    /\ Visited("Paragraph", TRUE)
    /\ node.Prev = "HTMLBlock"
    /\ status = "GoToNext"
    /\ Emitted = <<Str(paraTag)>>

\* C12: inList is true exactly when a list is open, that is entered and not
\* yet left.
C12_InListIffListOpen ==
    r.inList = (\E k \in 1..Len(stack) : stack[k].node.Type = "List")

\* C13: the role flag expects a term whenever a definition list is entered,
\* whatever lists came before it.  Stated for the definition lists that are
\* children of the document (so that no definition list is open around
\* them): the first item entered in such a list writes the term marker.
C13_FirstItemIsTerm ==
    (Visited("Item", TRUE) /\ ListTypeDefinition \in node.ListFlags
       /\ index = 1 /\ OpenTypes = <<"Document", "List", "Item">>) =>
        Emitted = <<Str(arglistTag)>>

\* the frames of the open ordered lists, outermost first
RECURSIVE OrderedOpen(_)
OrderedOpen(stk) ==
    IF stk = <<>> THEN <<>>
    ELSE LET f == stk[Len(stk)]
             below == OrderedOpen(SubSeq(stk, 1, Len(stk) - 1))
         IN IF f.node.Type = "List" /\ ListTypeOrdered \in f.node.ListFlags
            THEN Append(below, f)
            ELSE below

\* C14: ListCounters holds one counter for each open ordered list, outermost
\* first, and each counter is the next ordinal of its list (one more than
\* the items of that list entered so far); no ordered item and no ordered
\* list finds the stack empty, and it is empty when the document is left.
C14_CountersMatchOpenLists ==
    /\ Len(r.ListCounters) = Len(OrderedOpen(stack))
    /\ \A k \in 1..Len(r.ListCounters) :
         r.ListCounters[k] = OrderedOpen(stack)[k].kids + 1
    /\ pc # "panic"
    /\ Visited("Document", FALSE) => r.ListCounters = <<>>

\* two ordered lists are open, the inner one in the first item of the outer
\* one, and each has had one item entered
C14_Witness ==
    /\ Visited("Item", TRUE)
    /\ ListTypeOrdered \in node.ListFlags
    /\ OpenTypes = <<"Document", "List", "Item", "List", "Item">>
    /\ r.ListCounters = <<2, 2>>

\* C15: a table row writes nothing when it is entered and exactly one
\* newline when it is left.
C15_RowNewlineOnLeaveOnly ==
    /\ Visited("TableRow", TRUE) => Emitted = <<>>
    /\ Visited("TableRow", FALSE) => Emitted = <<Str("\n")>>

\* C16: a header table cell, whatever its position in the row, writes the
\* code-style start marker when it is entered and the close marker when it
\* is left; a cell that is not a header cell writes neither marker.
C16_HeaderMarkersBalanced ==
    /\ (Visited("TableCell", TRUE) /\ node.IsHeader) =>
          /\ status = "GoToNext"
          /\ Emitted # <<>>
          /\ Emitted[Len(Emitted)][Len(Emitted[Len(Emitted)])] = codespanTag
    /\ (Visited("TableCell", FALSE) /\ node.IsHeader) =>
          Flatten(Emitted) = Str(codespanCloseTag)
    /\ (visits > 0 /\ node.Type = "TableCell" /\ ~node.IsHeader) =>
          \A k \in 1..Len(Flatten(Emitted)) :
             Flatten(Emitted)[k] \notin {codespanTag, codespanCloseTag}

\* C17: on entering a table cell a tab is written if and only if the cell is
\* not the first of its row, and entering the first cell of a row (no
\* previous sibling) writes no separator and returns GoToNext.
C17_TabIffNotFirstCell ==
    Visited("TableCell", TRUE) =>
        /\ status = "GoToNext"
        /\ (\E k \in 1..Len(Flatten(Emitted)) : Flatten(Emitted)[k] = "\t")
             <=> (index > 1)

\* C18: the column pre-pass of the Table case writes nothing, changes no
\* field of the renderer and leaves the outer walk where it was: of the
\* entering visit of a table only the table start and the two format
\* lines reach the writer, the renderer is as before, the call returns
\* GoToNext with the table open and none of its children visited, and the
\* next visit is the entering visit of its first child, the table head.
C18_Step ==
    /\ (visits' = visits + 1 /\ node'.Type = "Table" /\ entering') =>
          /\ Emitted' = <<Str(tableStart),
                          Repeat("l ", countColumns(node')) \o Str("\n"),
                          Repeat("l ", countColumns(node')) \o Str(".\n")>>
          /\ r' = r
          /\ status' = "GoToNext"
          /\ pc' = "walk"
          /\ stack' = Append(ChildDone(stack, "Table"), Frame(node'))
    /\ (visits' = visits + 1 /\ Visited("Table", TRUE)) =>
          /\ node'.Type = "TableHead"
          /\ entering'
          /\ index' = 1
          /\ node'.Rows = <<Head(node.Rows)>>
C18_PrePassIsSilent == [][C18_Step]_vars

\* the head of a table that stands in the first item of an ordered list has
\* been entered, the renderer holding the counter and the flag of the list
C18_Witness ==
    /\ Visited("TableHead", TRUE)
    /\ OpenTypes = <<"Document", "List", "Item", "Table", "TableHead">>
    /\ index = 1
    /\ r.ListCounters = <<2>>
    /\ r.inList

\* the bytes escapeSpecialChars writes for a literal
EscapedLiteral(lit) ==
    LET e == escapeSpecialChars(Writer(TRUE, FALSE), lit)
    IN Flatten([k \in 1..Len(e.writes) |-> e.writes[k].data])

\* C19: a Text node is written as T{, its escaped literal, T} if and only
\* if its parent is a table cell and its literal is longer than 30 bytes;
\* a literal of 30 bytes in a table cell, and any literal under another
\* parent, is written as the escaped literal alone.
C19_LongCellTextWrapped ==
    Visited("Text", TRUE) =>
        /\ status = "GoToNext"
        /\ Flatten(Emitted) =
             (IF node.Parent = "TableCell" /\ Len(node.Literal) > 30
              THEN Str(tableCellStart) \o EscapedLiteral(node.Literal)
                     \o Str(tableCellEnd)
              ELSE EscapedLiteral(node.Literal))

\* a text of 31 bytes in a table cell has been written between the markers
C19_Witness ==
    /\ Visited("Text", TRUE)
    /\ node.Parent = "TableCell"
    /\ Len(node.Literal) = 31
    /\ Flatten(Emitted) = Str(tableCellStart) \o node.Literal \o Str(tableCellEnd)

\* a text of 30 bytes in a table cell, and one of 31 bytes in a paragraph,
\* have been written without the markers
C19_WitnessBare ==
    /\ Visited("Text", TRUE)
    /\ \/ node.Parent = "TableCell" /\ Len(node.Literal) = 30
       \/ node.Parent = "Paragraph" /\ Len(node.Literal) = 31
    /\ Flatten(Emitted) = node.Literal

\* a Paragraph is among the nodes entered and not yet left
ParagraphOpen(stk) == \E k \in 1..Len(stk) : stk[k].node.Type = "Paragraph"

\* C20: paragraph markup is balanced.  On entering a paragraph the marker
\* is written exactly when inList is false, on leaving it the line break is
\* written exactly when inList is false, neither visit changes the
\* renderer, and no visit made while the paragraph is open changes inList:
\* the flag at the leave event is the flag at the enter event, so the
\* marker is written on entering if and only if the line break is written
\* on leaving.
C20_Step ==
    /\ (visits' = visits + 1 /\ node'.Type = "Paragraph" /\ entering') =>
          /\ r' = r
          /\ status' = "GoToNext"
          /\ Emitted' = (IF r.inList THEN <<>> ELSE <<Str(paraTag)>>)
          /\ stack' = Append(ChildDone(stack, "Paragraph"), Frame(node'))
    /\ (visits' = visits + 1 /\ ParagraphOpen(stack) /\ ParagraphOpen(stack')) =>
          r'.inList = r.inList
    /\ (visits' = visits + 1 /\ node'.Type = "Paragraph" /\ ~entering') =>
          /\ r' = r
          /\ status' = "GoToNext"
          /\ Emitted' = (IF r.inList THEN <<>> ELSE <<Str(crTag)>>)
          /\ stack # <<>>
          /\ stack[Len(stack)].node = node'
C20_ParagraphBalanced == [][C20_Step]_vars

\* a paragraph that was entered in a list item, and held a text, has been
\* left without a line break
C20_Witness ==
    /\ Visited("Paragraph", FALSE)
    /\ node.Parent = "Item"
    /\ OpenTypes = <<"Document", "List", "Item">>
    /\ stack[3].last = "Paragraph"
    /\ r.inList
    /\ Emitted = <<>>

\* a paragraph of the document has been left with the line break
C20_WitnessMarked ==
    /\ Visited("Paragraph", FALSE)
    /\ node.Parent = "Document"
    /\ ~r.inList
    /\ Emitted = <<Str(crTag)>>

====
